---- MODULE Spec2Model ----
(***************************************************************************)
(* llm-warehouse: the call wrappers (wrapOpenAIMethod, wrapVercelAIMethod) *)
(* and the transport (send), as a state machine.                           *)
(*                                                                         *)
(* One step of the model is one run-to-completion segment of the event     *)
(* loop: the synchronous code between two awaits.  The environment (the    *)
(* underlying SDK call, fetch, response.text()) settles promises in steps  *)
(* of its own.                                                             *)
(***************************************************************************)
EXTENDS Integers, Sequences, FiniteSets, TLC

VARIABLES
    WAREHOUSE_URL,  \* process.env.LLM_WAREHOUSE_URL read at module load (characters)
    WAREHOUSE_KEY,  \* process.env.LLM_WAREHOUSE_API_KEY read at module load
    DEBUG,          \* the module-level DEBUG flag
    now,            \* Date.now(), in milliseconds
    call,           \* per slot: the frame of the wrapped call (or of a direct caller of send)
    record,         \* per slot: the LLMCallData object of the call (mutated in place)
    snd,            \* per slot: the frame of the send(record) being awaited
    handed,         \* per slot: the records handed to send, as they were when handed
    fetchLog,       \* every fetch(url, init) made, in order
    consumed,       \* per slot: elements the logging layer took from the result's stream
    procs,          \* per process: the module state of patch.ts, observify.ts and index.ts
    qry,            \* the frame of a getRecentLogs(limit) call
    ser             \* the frame of a serialize(obj) call made on its own

vars == <<WAREHOUSE_URL, WAREHOUSE_KEY, DEBUG, now, call, record, snd, handed, fetchLog,
          consumed, procs, qry, ser>>

-----------------------------------------------------------------------------
(* Bounds of the model *)

MaxSegs == 1        \* path segments appended to the host in a configured URL
MaxDelay == 1       \* milliseconds the underlying call may take
MaxChunks == 2      \* elements of a result's stream
MaxCalls == 3       \* calls of installPatch / patch / status a host makes in one process
MaxPath == 2        \* path segments of a base URL, where both endpoints are compared

Slots == {"c1"}     \* call slots in flight

-----------------------------------------------------------------------------
(* JavaScript values *)

Absent == "<undefined>"     \* undefined, or a property that is not there
Throws == "<throws>"        \* reading the property (calling the method) throws

\* An object with no interesting property.  str is what toString() returns;
\* toJSON / serializeFn say whether the method exists and whether it throws.
JSObject ==
    [ref |-> "obj", type |-> "object", str |-> "[object Object]",
     id |-> Absent, textStream |-> Absent, objectStream |-> Absent,
     text |-> Absent, object |-> Absent, usage |-> Absent, finishReason |-> Absent,
     toolCalls |-> Absent, toJSON |-> "none", serializeFn |-> "none",
     cyclic |-> FALSE, chunks |-> 0]

NoValue == [JSObject EXCEPT !.ref = "<none>", !.type = "none", !.str = Absent]

\* What the underlying implementation may resolve with.
Results ==
    { \* a chat completion, as in the tests: id and usage, plain data
      [JSObject EXCEPT !.ref = "completion", !.id = "cmpl_123", !.usage = "usage"],
      \* an SDK response object with its own toJSON
      [JSObject EXCEPT !.ref = "sdkResponse", !.id = "cmpl_456", !.toJSON = "ok"],
      \* an object whose toJSON throws
      [JSObject EXCEPT !.ref = "badToJSON", !.toJSON = "throws"],
      \* an object with a serialize() method
      [JSObject EXCEPT !.ref = "serializable", !.serializeFn = "ok"],
      \* an object holding a cycle: JSON.stringify throws
      [JSObject EXCEPT !.ref = "cyclic", !.cyclic = TRUE],
      \* an object whose id getter throws
      [JSObject EXCEPT !.ref = "idThrows", !.id = Throws],
      \* a stream of chunks (what create({stream: true}) resolves with)
      [JSObject EXCEPT !.ref = "chatStream", !.chunks = MaxChunks],
      \* generateText: text, usage, finishReason
      [JSObject EXCEPT !.ref = "generated", !.text = "ok", !.usage = "usage",
                       !.finishReason = "stop"],
      \* generateText with tool calls
      [JSObject EXCEPT !.ref = "withTools", !.text = "ok", !.usage = "usage",
                       !.finishReason = "tool-calls", !.toolCalls = "toolCalls"],
      \* generateText answering with a tool call only: the text is empty
      [JSObject EXCEPT !.ref = "emptyText", !.text = "", !.usage = "usage",
                       !.finishReason = "tool-calls", !.toolCalls = "toolCalls"],
      \* generateObject
      [JSObject EXCEPT !.ref = "generatedObject", !.object = "object",
                       !.finishReason = "stop"],
      \* streamText / streamObject
      [JSObject EXCEPT !.ref = "textStreamResult", !.textStream = "textStream",
                       !.chunks = MaxChunks],
      [JSObject EXCEPT !.ref = "objectStreamResult", !.objectStream = "objectStream",
                       !.chunks = MaxChunks],
      \* results whose getters throw
      [JSObject EXCEPT !.ref = "textStreamThrows", !.textStream = Throws],
      [JSObject EXCEPT !.ref = "usageThrows", !.text = "ok", !.usage = Throws],
      \* not objects
      [JSObject EXCEPT !.ref = "undefined", !.type = "undefined", !.str = "undefined"],
      [JSObject EXCEPT !.ref = "aString", !.type = "string", !.str = "plain text"] }

\* What the underlying implementation may throw or reject with.
Errors ==
    { [JSObject EXCEPT !.ref = "rateLimit", !.str = "Error: rate limit exceeded"],
      [JSObject EXCEPT !.ref = "thrownString", !.type = "string", !.str = "boom"],
      [JSObject EXCEPT !.ref = "emptyString", !.type = "string", !.str = ""],
      [JSObject EXCEPT !.ref = "undefined", !.type = "undefined", !.str = "undefined"],
      [JSObject EXCEPT !.ref = "null", !.type = "null", !.str = "null"],
      \* Object.create(null): no toString to call
      [JSObject EXCEPT !.ref = "noToString", !.str = Throws] }

\* Errors raised inside the logging layer itself.
GetterError == [JSObject EXCEPT !.ref = "getterError", !.str = "Error: getter failed"]
TypeError == [JSObject EXCEPT !.ref = "typeError", !.str = "TypeError: not a function"]
FetchError == [JSObject EXCEPT !.ref = "fetchError", !.str = "Error: Network failure"]
BodyError == [JSObject EXCEPT !.ref = "bodyError", !.str = "TypeError: body unusable"]
StringifyError == [JSObject EXCEPT !.ref = "stringifyError",
                                   !.str = "TypeError: Converting circular structure to JSON"]

Nullish(v) == v.type \in {"undefined", "null"}

\* `v && typeof v === 'object'`
IsObject(v) == v.type = "object"

\* String(v)
StringOf(v) == v.str

\* The truthiness of a string-valued field.
JsTruthy(x) == x # Absent /\ x # ""

\* The argument list of a call: the parameter object args[0] (ref, with its
\* keys stream, model, schema and tools) and the arguments after it (rest), or
\* no argument at all.
NoArgs ==
    [ref |-> Absent, given |-> FALSE, stream |-> FALSE, cyclic |-> FALSE,
     model |-> Absent, schema |-> Absent, tools |-> Absent, rest |-> Absent]
ArgObjects ==
    { [NoArgs EXCEPT !.ref = "params", !.given = TRUE, !.model = "gpt-4"],
      [NoArgs EXCEPT !.ref = "streamParams", !.given = TRUE, !.stream = TRUE,
                     !.model = "gpt-4"],
      [NoArgs EXCEPT !.ref = "cyclicParams", !.given = TRUE, !.cyclic = TRUE],
      \* a provider model object, a schema and tools, and a second argument
      [NoArgs EXCEPT !.ref = "richParams", !.given = TRUE, !.model = "languageModel",
                     !.schema = "mockSchema", !.tools = "mockTools",
                     !.rest = "requestOptions"],
      \* a model object that holds a cycle and has no toString (null prototype)
      [NoArgs EXCEPT !.ref = "hostileModel", !.given = TRUE, !.cyclic = TRUE,
                     !.model = "nullProtoCycle"] }
Args == ArgObjects \cup {NoArgs}

\* The value of params.model, as serialize sees it.
ModelValue(m) ==
    IF m = "gpt-4" THEN [JSObject EXCEPT !.ref = m, !.type = "string", !.str = m]
    ELSE IF m = "nullProtoCycle" THEN [JSObject EXCEPT !.ref = m, !.cyclic = TRUE,
                                                      !.str = Throws]
    ELSE [JSObject EXCEPT !.ref = m]

\* ...args: the arguments as a list
ArgList(args) ==
    IF ~args.given THEN <<>>
    ELSE IF args.rest = Absent THEN <<args.ref>>
    ELSE <<args.ref, args.rest>>

-----------------------------------------------------------------------------
(* Strings that the code takes apart: sequences of characters *)

Undefined == <<"<undefined>">>      \* an environment variable that is not set

Truthy(s) == s # Undefined /\ s # <<>>

EndsWith(s, suffix) ==
    /\ Len(s) >= Len(suffix)
    /\ SubSeq(s, Len(s) - Len(suffix) + 1, Len(s)) = suffix

LLM_LOGS == <<"/", "l", "l", "m", "-", "l", "o", "g", "s">>

\* s.replace(/\/$/, '')
StripTrailingSlash(s) ==
    IF Len(s) > 0 /\ s[Len(s)] = "/" THEN SubSeq(s, 1, Len(s) - 1) ELSE s

ResolveAppendsAlways(url) == StripTrailingSlash(url) \o LLM_LOGS

\* const warehouseUrl = WAREHOUSE_URL.endsWith('/llm-logs') ? WAREHOUSE_URL : ...
ResolveEndpoint(url) ==
    IF EndsWith(url, LLM_LOGS) THEN url ELSE StripTrailingSlash(url) \o LLM_LOGS

Host == <<"h", "t", "t", "p", ":", "/", "/", "h">>
Segments == {<<"/">>, <<"a">>, LLM_LOGS}

RECURSIVE Tails(_)
Tails(n) ==
    IF n = 0 THEN {<<>>}
    ELSE LET shorter == Tails(n - 1)
         IN shorter \cup {t \o s : t \in shorter, s \in Segments}

\* The values LLM_WAREHOUSE_URL may have.
Urls == {Undefined, <<>>} \cup {Host \o t : t \in Tails(MaxSegs)}

\* Base URLs that are set, with up to MaxPath segments after the host.
BaseUrls == {Host \o t : t \in Tails(MaxPath)}

\* The values LLM_WAREHOUSE_API_KEY may have.
Keys == {Absent, "", "test-key"}

-----------------------------------------------------------------------------
(* LLMCallData *)

\* request.kwargs of a record: which object it is (or was copied from), and
\* the values it holds under the keys model, schema and tools.
Kwargs(from, fresh, cyclic) ==
    [from |-> from, fresh |-> fresh, cyclic |-> cyclic,
     model |-> Absent, schema |-> Absent, tools |-> Absent]

\* kwargs: args[0] || {} of wrapOpenAIMethod: the caller's object itself
OpenAIKwargs(args) ==
    IF args.given
    THEN [Kwargs(args.ref, FALSE, args.cyclic)
            EXCEPT !.model = args.model, !.schema = args.schema, !.tools = args.tools]
    ELSE Kwargs("{}", TRUE, FALSE)

\* A record with only sdk_method and request set.  response and latency_s are
\* <<>> while unset; the other optional fields are Absent while unset.
NewRecord(method, kwargs) ==
    [sdk_method |-> method, kwargs |-> kwargs, response |-> <<>>, latency_s |-> <<>>,
     error |-> Absent, request_id |-> Absent, timestamp |-> Absent, source |-> Absent,
     env |-> Absent]

NoRecord == NewRecord(Absent, Kwargs(Absent, FALSE, FALSE))

STREAMING_RESPONSE == <<"string", "streaming_response">>
VERCEL_STREAMING_RESPONSE == <<"string", "vercel_ai_streaming_response">>

\* A step of synchronous code: the value it produced, or what it threw.
Returned(val) == [threw |-> FALSE, val |-> val, err |-> NoValue]
Thrown(err) == [threw |-> TRUE, val |-> <<>>, err |-> err]

\* The catch of serialize: String(obj).
SerializeFallback(obj) ==
    IF StringOf(obj) = Throws THEN Thrown(TypeError)
    ELSE Returned(<<"string", StringOf(obj)>>)

\* JSON.parse(JSON.stringify(obj)): JSON.stringify throws on a cycle and gives
\* undefined for undefined, which JSON.parse rejects.
JsonCopy(obj) ==
    IF obj.cyclic \/ obj.type = "undefined" THEN Thrown(StringifyError)
    ELSE Returned(<<"json", obj.ref>>)

\* The conversion the try block of serialize attempts: the first of toJSON,
\* serialize and the JSON copy whose condition holds.
Conversion(obj) ==
    IF IsObject(obj) /\ obj.toJSON # "none" THEN "toJSON"
    ELSE IF IsObject(obj) /\ obj.serializeFn # "none" THEN "serialize"
    ELSE "json"

\* The try block of serialize.
SerializeTry(obj) ==
    IF Conversion(obj) = "toJSON"
    THEN IF obj.toJSON = "ok" THEN Returned(<<"toJSON", obj.ref>>) ELSE Thrown(TypeError)
    ELSE IF Conversion(obj) = "serialize"
    THEN IF obj.serializeFn = "ok" THEN Returned(<<"serialize", obj.ref>>)
         ELSE Thrown(TypeError)
    ELSE JsonCopy(obj)

serialize(obj) ==
    LET tried == SerializeTry(obj)
    IN IF tried.threw THEN SerializeFallback(obj) ELSE tried

\* The frame of a serialize(obj) call: the conversions it has attempted so far
\* and what it returned or threw.
SerializeFrame(pc, obj) == [pc |-> pc, obj |-> obj, tried |-> <<>>, out |-> Returned(<<>>)]

SerializeIdle == SerializeFrame("idle", NoValue)

\* The conversions that apply to a value, richest first: its toJSON method and
\* its serialize method if it has them, and the JSON copy.
Applicable(obj) ==
    (IF IsObject(obj) /\ obj.toJSON # "none" THEN {"toJSON"} ELSE {})
        \cup (IF IsObject(obj) /\ obj.serializeFn # "none" THEN {"serialize"} ELSE {})
        \cup {"json"}

\* The object literal of wrapVercelAIMethod before `...params`: the model
\* serialized, placeholders for schema and tools.
KwargsLiteral(params) ==
    [model |-> IF ~JsTruthy(params.model) THEN Absent
               ELSE IF ModelValue(params.model).type = "string" THEN params.model
               ELSE "[model copy]",
     schema |-> IF JsTruthy(params.schema) THEN "[schema object]" ELSE Absent,
     tools |-> IF JsTruthy(params.tools) THEN "[tools object]" ELSE Absent]

\* A plausible bug: the spread comes first, so the placeholders win.
SpreadFirst(literal, params) ==
    [k \in DOMAIN literal |-> IF literal[k] # Absent THEN literal[k] ELSE params[k]]

\* {..., ...params}: every key of params overrides the key of the literal
Spread(literal, params) ==
    [k \in DOMAIN literal |-> IF params[k] # Absent THEN params[k] ELSE literal[k]]

\* request.kwargs of wrapVercelAIMethod, or what building it throws:
\* serialize(params.model) is evaluated outside the try block.
VercelKwargs(args) ==
    LET params == IF args.given THEN args ELSE NoArgs
        copied == IF JsTruthy(params.model) THEN serialize(ModelValue(params.model))
                  ELSE Returned(<<>>)
        final == Spread(KwargsLiteral(params), params)
    IN IF copied.threw THEN Thrown(copied.err)
       ELSE Returned([Kwargs(IF args.given THEN args.ref ELSE "{}", TRUE, args.cyclic)
                        EXCEPT !.model = final.model, !.schema = final.schema,
                               !.tools = final.tools])

\* What a wrapper's synchronous code leaves behind when it reaches `await
\* send(record)` or throws: the record, what was thrown (NoValue: nothing),
\* and how many elements it took from the result's stream.
Segment(rec, thrown, taken) == [record |-> rec, thrown |-> thrown, taken |-> taken]

\* A plausible bug: the streaming branch collects the stream to log it.
LogStreamingDrains(rec, sentinel, result) ==
    Segment([rec EXCEPT !.response = <<"chunks", result.ref>>], NoValue, result.chunks)

\* A plausible bug: the streaming branch serializes the stream object.
LogStreamingSerializes(rec, sentinel, result) ==
    Segment([rec EXCEPT !.response = <<"json", result.ref>>], NoValue, 0)

\* The streaming branch of both wrappers: the sentinel is recorded, the
\* result is not touched.
LogStreaming(rec, sentinel, result) ==
    Segment([rec EXCEPT !.response = sentinel], NoValue, 0)

\* A plausible bug: the request id is not recorded.
OpenAITryOmitsRequestId(rec, args, result, latency) ==
    LET timed == [rec EXCEPT !.latency_s = <<latency>>]
    IN IF args.stream
       THEN LogStreaming(timed, STREAMING_RESPONSE, result)
       ELSE LET s == serialize(result)
            IN IF s.threw THEN Segment(timed, s.err, 0)
               ELSE Segment([timed EXCEPT !.response = s.val], NoValue, 0)

\* wrapOpenAIMethod, the try block after `await originalMethod.apply(this, args)`
OpenAITry(rec, args, result, latency) ==
    LET timed == [rec EXCEPT !.latency_s = <<latency>>]
    IN IF args.stream
       THEN LogStreaming(timed, STREAMING_RESPONSE, result)
       ELSE LET s == serialize(result)
            IN IF s.threw THEN Segment(timed, s.err, 0)
               ELSE LET answered == [timed EXCEPT !.response = s.val]
                    IN IF ~Nullish(result) /\ result.id = Throws
                       THEN Segment(answered, GetterError, 0)
                       ELSE Segment([answered EXCEPT !.request_id =
                                        IF Nullish(result) THEN Absent ELSE result.id],
                                    NoValue, 0)

\* if (result.k) responseData.k = result.k: the key is set when the value is truthy
Picked(v) == IF JsTruthy(v) THEN v ELSE Absent

\* A plausible bug: the tool calls of the result are copied as well.
VercelResponseDataWithExtras(result) ==
    <<"summary", Picked(result.text), Picked(result.object), Picked(result.usage),
      Picked(result.finishReason), Picked(result.toolCalls)>>

\* The regular response of wrapVercelAIMethod, responseData: the keys text,
\* object, usage and finishReason, then every other field of the result
\* (toolCalls stands for them), which responseData never gets.
\* (result.object is plain data here, which serialize copies as it is.)
VercelResponseData(result) ==
    <<"summary", Picked(result.text), Picked(result.object), Picked(result.usage),
      Picked(result.finishReason), Absent>>

\* wrapVercelAIMethod, the try block after `await originalMethod.apply(this, args)`
VercelTry(rec, args, result, latency) ==
    LET timed == [rec EXCEPT !.latency_s = <<latency>>]
    IN IF IsObject(result)
       THEN IF result.textStream = Throws THEN Segment(timed, GetterError, 0)
            ELSE IF result.textStream # Absent
            THEN LogStreaming(timed, VERCEL_STREAMING_RESPONSE, result)
            ELSE IF result.objectStream = Throws THEN Segment(timed, GetterError, 0)
            ELSE IF result.objectStream # Absent
            THEN LogStreaming(timed, VERCEL_STREAMING_RESPONSE, result)
            ELSE IF Throws \in {result.text, result.object, result.usage, result.finishReason}
            THEN Segment(timed, GetterError, 0)
            ELSE Segment([timed EXCEPT !.response = VercelResponseData(result)], NoValue, 0)
       ELSE LET s == serialize(result)
            IN IF s.threw THEN Segment(timed, s.err, 0)
               ELSE Segment([timed EXCEPT !.response = s.val], NoValue, 0)

\* error?.toString() || 'Unknown error'
ErrorText(error) ==
    IF Nullish(error) \/ error.str = "" THEN "Unknown error" ELSE error.str

\* The catch block of both wrappers, up to `await send(record)`.
CatchBlock(rec, error, latency) ==
    LET timed == [rec EXCEPT !.latency_s = <<latency>>]
    IN IF ~Nullish(error) /\ error.str = Throws
       THEN Segment(timed, TypeError, 0)
       ELSE Segment([timed EXCEPT !.error = ErrorText(error)], NoValue, 0)

-----------------------------------------------------------------------------
(* Transport: send(record) *)

DEFAULT_TIMESTAMP == "new Date().toISOString()"
DEFAULT_SOURCE == "typescript-openai"
DEFAULT_ENV == "{OPENAI_BASE_URL, OPENAI_ORG, OPENAI_PROJECT}"

\* A plausible bug: the defaults are assigned unconditionally.
AddDefaultsAlways(rec) ==
    [rec EXCEPT !.timestamp = DEFAULT_TIMESTAMP, !.source = DEFAULT_SOURCE,
                !.env = DEFAULT_ENV]

\* record.timestamp = record.timestamp || ...; the same for source and env
AddDefaults(rec) ==
    [rec EXCEPT !.timestamp = IF JsTruthy(@) THEN @ ELSE DEFAULT_TIMESTAMP,
                !.source = IF JsTruthy(@) THEN @ ELSE DEFAULT_SOURCE,
                !.env = IF JsTruthy(@) THEN @ ELSE DEFAULT_ENV]

\* A plausible bug: only an unset variable counts as not configured.
SkipsLogUnsetOnly(url, key) == url = Undefined \/ key = Absent

\* if (!WAREHOUSE_URL || !WAREHOUSE_KEY)
SkipsLog(url, key) == ~Truthy(url) \/ ~JsTruthy(key)

\* JSON.stringify(record) throws when the record holds a cycle.
Stringifiable(rec) == ~rec.kwargs.cyclic

\* fetch(warehouseUrl, {method: 'POST', headers: getHeaders(), body: JSON.stringify(record)})
PostRequest(c, url, key, rec) ==
    [method |-> "POST", url |-> ResolveEndpoint(url), authorization |-> key,
     body |-> rec, slot |-> c]

\* A plausible bug: the catch of send lets the failure through.
SendCatchRethrows(error) == [status |-> "rejected", err |-> error]

\* catch (error) { ... } of send: fail silently
SendCatch(error) == [status |-> "resolved", err |-> NoValue]

\* The frame of a send: where it is, how its promise settled, and what the
\* network layer did with its request so far (net).
SendFrame(pc, settled, net) ==
    [pc |-> pc, status |-> settled.status, err |-> settled.err, net |-> net]

SendIdle == SendFrame("idle", [status |-> "none", err |-> NoValue], "none")
SendResolved == [status |-> "resolved", err |-> NoValue]
SendPending == [status |-> "none", err |-> NoValue]

\* send(record) from its call to its first await (or its return): the record
\* as send leaves it, the frame of send, and the fetch it made, if any.
SendSync(c, rec) ==
    LET filled == AddDefaults(rec)
    IN IF SkipsLog(WAREHOUSE_URL, WAREHOUSE_KEY)
       THEN [record |-> filled, frame |-> SendFrame("done", SendResolved, "none"),
             fetches |-> <<>>]
       ELSE IF ~Stringifiable(filled)
       THEN [record |-> filled,
             frame |-> SendFrame("done", SendCatch(StringifyError), "none"),
             fetches |-> <<>>]
       ELSE [record |-> filled, frame |-> SendFrame("awaitFetch", SendPending, "none"),
             fetches |-> <<PostRequest(c, WAREHOUSE_URL, WAREHOUSE_KEY, filled)>>]

-----------------------------------------------------------------------------
(* The frames of the calls *)

Pending == [state |-> "pending", val |-> NoValue]
Settled(state, val) == [state |-> state, val |-> val]

\* originalMethod.apply(thisArg, args): what the real implementation receives
Delegate(thisArg, args) == [this |-> thisArg, args |-> ArgList(args)]

\* original = instance.chat.completions.create.bind(instance.chat.completions):
\* the real method runs with the completions object as this, whatever the
\* wrapper passes to apply.
BOUND_THIS == "instance.chat.completions"

Frame(pc, surface, method, args, startTime) ==
    [pc |-> pc, surface |-> surface, method |-> method, args |-> args,
     self |-> Absent,           \* the this-binding the caller called with
     passed |-> [this |-> Absent, args |-> <<"<not called>">>],   \* what the real implementation was called with
     startTime |-> startTime,
     resumedAt |-> startTime,   \* Date.now() when the wrapper resumed after the real call
     invocations |-> 0,         \* calls of the underlying implementation
     under |-> Pending,         \* the promise of the underlying implementation
     phase |-> "none",          \* the block of the wrapper that awaits send: try or catch
     after |-> Pending,         \* what the wrapper does once send has settled
     outcome |-> Pending]       \* the promise the caller holds

Idle == Frame("idle", Absent, Absent, NoArgs, 0)

VercelMethods == {"ai.generateText", "ai.generateObject", "ai.streamText", "ai.streamObject"}
OPENAI_METHOD == "openai.chat.completions.create"

\* Records a caller may pass to send directly, as the transport tests do.
DirectRecords ==
    { [NewRecord("test.method", Kwargs("{}", TRUE, cyc))
         EXCEPT !.timestamp = ts, !.source = src, !.env = env] :
        cyc \in BOOLEAN, ts \in {Absent, "", "2020-01-01T00:00:00.000Z"},
        src \in {Absent, "", "custom-source"}, env \in {Absent, "{custom env}"} }

-----------------------------------------------------------------------------
(* Installation: patch.ts (installPatch), observify.ts, index.ts *)

\* Two processes run the same host program; they may differ in the token.
Processes == {"host", "twin"}

\* The values LLM_WAREHOUSE_API_KEY may have in a process.
Tokens == Keys \cup {" ", "secret-key-123"}

\* (process.env.LLM_WAREHOUSE_API_KEY || '').trim()
Trim(token) == IF token \in {Absent, "", " "} THEN "" ELSE token

\* The module-cache entry of the client constructor: what exports.default and
\* exports refer to.  Absent: require.cache holds no such entry.
OriginalEntry == [default |-> "OpenAI", exports |-> "module.exports"]
NoEntry == [default |-> Absent, exports |-> Absent]
PatchedEntry == [default |-> "PatchedOpenAI", exports |-> "PatchedOpenAI"]

\* The steps of installPatch that can fail: building the proxy constructor
\* (setPrototypeOf, assign), searching require.cache, and the two assignments
\* to the cache entry.
InstallSteps == {"build", "find", "assignDefault", "assignExports"}
NoFailure == "none"

NoSnapshot ==
    [enabled |-> Absent, patched |-> Absent, debug |-> Absent, warehouseUrl |-> <<>>,
     apiKey |-> Absent, taken |-> FALSE]

\* The state of one process.  attempts, completed, noops, calls, lastCall,
\* lastFailure, threw and snapshot record what happened, for the properties.
Process(token, cache, envEnabled) ==
    [token |-> token,
     _patchApplied |-> FALSE,       \* patch.ts
     _isPatched |-> FALSE,          \* observify.ts
     _isEnabled |-> FALSE,          \* observify.ts
     envEnabled |-> envEnabled,     \* process.env.LLM_WAREHOUSE_ENABLED
     envDebug |-> Absent,           \* process.env.LLM_WAREHOUSE_DEBUG
     cache |-> cache,
     imported |-> FALSE,            \* index.ts has been loaded
     attempts |-> 0,                \* times the try block of installPatch was entered
     completed |-> 0,               \* times installPatch set _patchApplied
     noops |-> 0,                   \* times installPatch returned at its flag check
     calls |-> 0,
     lastCall |-> "none",
     lastFailure |-> NoFailure,     \* the step that failed in the last installPatch
     threw |-> FALSE,               \* an entry point threw into the host
     client |-> "none",             \* the client instance the host constructed last
     snapshot |-> NoSnapshot]       \* what the last status() returned

\* catch (error) { console.warn(...) } of installPatch: the failure is swallowed.
InstallCatchRethrows(p, step) == [proc |-> [p EXCEPT !.lastFailure = step], threw |-> TRUE]

InstallCatch(p, step) == [proc |-> [p EXCEPT !.lastFailure = step], threw |-> FALSE]

\* A plausible bug: the flag is never consulted.
AlreadyAppliedNever(p) == FALSE

\* if (_patchApplied) return
AlreadyApplied(p) == p._patchApplied

\* m.exports.default === OriginalOpenAI
EntryFound(p) == p.cache.default = "OpenAI"

\* installPatch(), where `fail` is the step the environment makes fail (if
\* that step is executed at all).
installPatch(p, fail) ==
    IF AlreadyApplied(p)
    THEN [proc |-> [p EXCEPT !.noops = @ + 1, !.lastFailure = NoFailure], threw |-> FALSE]
    ELSE LET tried == [p EXCEPT !.attempts = @ + 1, !.lastFailure = NoFailure]
             defaulted == [tried EXCEPT !.cache.default = "PatchedOpenAI"]
             replaced == [defaulted EXCEPT !.cache.exports = "PatchedOpenAI"]
             applied(q) == [proc |-> [q EXCEPT !._patchApplied = TRUE, !.completed = @ + 1],
                            threw |-> FALSE]
         IN IF fail = "build" THEN InstallCatch(tried, fail)
            ELSE IF fail = "find" THEN InstallCatch(tried, fail)
            ELSE IF ~EntryFound(tried) THEN applied(tried)
            ELSE IF fail = "assignDefault" THEN InstallCatch(tried, fail)
            ELSE IF fail = "assignExports" THEN InstallCatch(defaulted, fail)
            ELSE applied(replaced)

\* A plausible bug: disabling leaves process.env.LLM_WAREHOUSE_ENABLED as it is.
patchKeepsEnvFlag(p, enabled, debug, fail) ==
    LET set == [p EXCEPT !._isEnabled = enabled]
    IN IF ~enabled THEN set
       ELSE LET env == [set EXCEPT !.envEnabled = "1",
                                   !.envDebug = IF debug THEN "1" ELSE Absent]
            IN IF env._isPatched THEN env
               ELSE LET r == installPatch(env, fail)
                    IN IF r.threw THEN r.proc
                       ELSE [r.proc EXCEPT !._isPatched = TRUE]

\* patch(options) of observify.ts
patch(p, enabled, debug, fail) ==
    LET set == [p EXCEPT !._isEnabled = enabled]
    IN IF ~enabled THEN [set EXCEPT !.envEnabled = "0"]
       ELSE LET env == [set EXCEPT !.envEnabled = "1",
                                   !.envDebug = IF debug THEN "1" ELSE Absent]
            IN IF env._isPatched THEN env
               ELSE LET r == installPatch(env, fail)
                    IN IF r.threw THEN r.proc   \* catch (error) { console.warn(...) }
                       ELSE [r.proc EXCEPT !._isPatched = TRUE]

\* shouldAutoPatch()
shouldAutoPatch(p) == Trim(p.token) # ""

\* Loading index.ts: auto-patch if a token is set.
autoPatch(p, fail) ==
    LET loaded == [p EXCEPT !.imported = TRUE]
    IN IF shouldAutoPatch(loaded)
       THEN installPatch(loaded, fail).proc     \* try { installPatch() } catch { warn }
       ELSE loaded

\* The falsy spellings of a flag variable: !['', '0', 'false', ...].includes(v || '0')
FlagSet(v) == v \notin {Absent, "", "0", "false", "False", "no", "off"}

isEnabled(p) == p._isEnabled \/ FlagSet(p.envEnabled)

isPatched(p) == p._isPatched

PLACEHOLDER == "***configured***"

\* A plausible bug: status() reports the token itself.
StatusApiKeyRaw(token) == token

\* process.env.LLM_WAREHOUSE_API_KEY ? '***configured***' : undefined
StatusApiKey(token) == IF JsTruthy(token) THEN PLACEHOLDER ELSE Absent

Bool(b) == IF b THEN "true" ELSE "false"

\* status()
status(p, url) ==
    [enabled |-> Bool(isEnabled(p)), patched |-> Bool(isPatched(p)),
     debug |-> Bool(FlagSet(p.envDebug)), warehouseUrl |-> url,
     apiKey |-> StatusApiKey(p.token), taken |-> TRUE]

\* A plausible bug: the replacement constructor wraps only while observation is enabled.
ConstructsWhenEnabled(p) ==
    IF p.cache.default = "PatchedOpenAI" /\ isEnabled(p) THEN "wrapped" ELSE "original"

\* new OpenAI(), with the constructor the module-cache entry has as its default
\* export: PatchedOpenAI wraps chat.completions.create of the new instance.
Constructs(p) ==
    IF p.cache.default = "PatchedOpenAI" THEN "wrapped" ELSE "original"

\* One call of an entry point, counted.
Called(p, name) == [p EXCEPT !.calls = @ + 1, !.lastCall = name, !.threw = FALSE]

-----------------------------------------------------------------------------
(* Query: getRecentLogs(limit) -> getFlaskLogs(limit) *)

\* What the body of a 2xx response parses to: an object with a logs array (of
\* two records, or empty), an object without logs, null, or nothing (malformed).
Bodies == {"logs2", "logs0", "noLogs", "null", "malformed"}

\* data.logs, for the bodies that have one
LogsOf(body) ==
    IF body = "logs2" THEN <<"log-b", "log-a">> ELSE <<>>

Limits == {1, 5}

\* const baseUrl = WAREHOUSE_URL.endsWith('/llm-logs') ? WAREHOUSE_URL : ...
QueryBaseUrl(url) ==
    IF EndsWith(url, LLM_LOGS) THEN url ELSE StripTrailingSlash(url) \o LLM_LOGS

\* `${limit}`, for a limit of one digit
LimitText(limit) == <<(<<"0", "1", "2", "3", "4", "5", "6", "7", "8", "9">>)[limit + 1]>>

LIMIT_QUERY == <<"?", "l", "i", "m", "i", "t", "=">>

\* `${baseUrl}?limit=${limit}`
QueryUrl(url, limit) == QueryBaseUrl(url) \o LIMIT_QUERY \o LimitText(limit)

QueryFrame(pc, limit, fetches) ==
    [pc |-> pc, limit |-> limit, fetches |-> fetches,
     url |-> <<>>,              \* the URL of the request
     net |-> "none",            \* what the network layer did with the request
     body |-> "none",           \* what the response body parses to
     outcome |-> "none",        \* how the promise of getRecentLogs settled
     result |-> <<>>]           \* what it resolved with

QueryIdle == QueryFrame("idle", 0, 0)

\* A plausible bug: the catch of getFlaskLogs lets the failure through.
QueryCatchRethrows(frame) == [frame EXCEPT !.pc = "done", !.outcome = "rejected"]

\* catch (error) { console.error(...) }; return []
QueryCatch(frame) == [frame EXCEPT !.pc = "done", !.outcome = "resolved", !.result = <<>>]

\* return logs
QueryReturn(frame, logs) ==
    [frame EXCEPT !.pc = "done", !.outcome = "resolved", !.result = logs]

\* getFlaskLogs after `await response.json()` resolved with data
QueryAfterParse(frame) ==
    IF frame.body = "null" THEN QueryCatch(frame)       \* data.logs throws
    ELSE QueryReturn(frame, LogsOf(frame.body))

TypeOK ==
    /\ WAREHOUSE_URL \in Urls \cup BaseUrls
    /\ WAREHOUSE_KEY \in Tokens
    /\ DEBUG \in BOOLEAN
    /\ now \in Nat
    /\ DOMAIN call = Slots /\ DOMAIN record = Slots /\ DOMAIN snd = Slots
    /\ \A c \in Slots :
        /\ call[c].pc \in {"idle", "invoking", "settled", "awaitSend", "done"}
        /\ snd[c].pc \in {"idle", "awaitFetch", "fetched", "fetchRejected",
                          "awaitText", "texted", "textRejected", "done"}
        /\ snd[c].net \in {"none", "ok", "notOk", "rejected", "bodyRead", "bodyFailed"}
        /\ snd[c].status \in {"none", "resolved", "rejected"}
        /\ Len(handed[c]) <= 2
        /\ consumed[c] \in 0..(MaxChunks + 1)
    /\ qry.pc \in {"idle", "awaitFetch", "fetched", "fetchRejected", "awaitJson", "parsed",
                   "parseRejected", "awaitText", "texted", "textRejected", "done"}
    /\ qry.fetches \in 0..1
    /\ qry.fetches = 1 => EndsWith(qry.url, LimitText(qry.limit))
    /\ DOMAIN procs = Processes
    /\ \A p \in Processes :
        /\ procs[p].token \in Tokens
        /\ procs[p].calls \in 0..MaxCalls
        /\ procs[p].attempts + procs[p].noops <= procs[p].calls + 1
        /\ procs[p].client \in {"none", "wrapped", "original"}
        /\ procs[p].cache.default \in {Absent, "OpenAI", "PatchedOpenAI"}
        /\ procs[p].cache.exports \in {Absent, "module.exports", "PatchedOpenAI"}

Init ==
    /\ WAREHOUSE_URL \in Urls
    /\ WAREHOUSE_KEY \in Keys
    /\ DEBUG \in BOOLEAN
    /\ now = 0
    /\ call = [c \in Slots |-> Idle]
    /\ record = [c \in Slots |-> NoRecord]
    /\ snd = [c \in Slots |-> SendIdle]
    /\ handed = [c \in Slots |-> <<>>]
    /\ fetchLog = <<>>
    /\ consumed = [c \in Slots |-> 0]
    /\ procs = [p \in Processes |-> Process(WAREHOUSE_KEY, OriginalEntry, Absent)]
    /\ qry = QueryIdle
    /\ ser = SerializeIdle

-----------------------------------------------------------------------------
(* Steps shared by the actions *)

\* `await send(record)`: send runs to its first await, the caller waits.
AwaitSend(c, frame, rec, phase, after) ==
    LET s == SendSync(c, rec)
    IN /\ record' = [record EXCEPT ![c] = s.record]
       /\ snd' = [snd EXCEPT ![c] = s.frame]
       /\ handed' = [handed EXCEPT ![c] = Append(@, rec)]
       /\ fetchLog' = fetchLog \o s.fetches
       /\ call' = [call EXCEPT ![c] =
                     [frame EXCEPT !.pc = "awaitSend", !.phase = phase, !.after = after]]

\* The async function returns or throws: the caller's promise settles.
Settle(c, rec, outcome) ==
    /\ record' = [record EXCEPT ![c] = rec]
    /\ call' = [call EXCEPT ![c].pc = "done", ![c].outcome = outcome]
    /\ UNCHANGED <<snd, handed, fetchLog>>

\* catch (error) { latency_s; error; await send(record); throw error }
RunCatch(c, rec, error) ==
    LET seg == CatchBlock(rec, error, now - call[c].startTime)
    IN IF seg.thrown # NoValue
       THEN Settle(c, seg.record, Settled("rejected", seg.thrown))
       ELSE AwaitSend(c, [call[c] EXCEPT !.resumedAt = now], seg.record, "catch",
                      Settled("rejected", error))

-----------------------------------------------------------------------------
(* The caller *)

\* A plausible bug: the record is one object shared by all invocations.
CallOpenAISharesRecord(c, args, self) ==
    /\ call[c].pc = "idle"
    /\ call' = [call EXCEPT ![c] =
                  [Frame("invoking", "openai", OPENAI_METHOD, args, now)
                     EXCEPT !.invocations = 1, !.self = self,
                            !.passed = Delegate(BOUND_THIS, args)]]
    /\ record' = [x \in DOMAIN record |-> NewRecord(OPENAI_METHOD, OpenAIKwargs(args))]
    /\ UNCHANGED <<procs, qry, ser, WAREHOUSE_URL, WAREHOUSE_KEY, DEBUG, now, snd, handed, fetchLog, consumed>>

\* client.chat.completions.create(args) on a wrapped client, called on the
\* completions object or detached from it: up to `await originalMethod.apply(...)`
CallOpenAI(c, args, self) ==
    /\ call[c].pc = "idle"
    /\ call' = [call EXCEPT ![c] =
                  [Frame("invoking", "openai", OPENAI_METHOD, args, now)
                     EXCEPT !.invocations = 1, !.self = self,
                            !.passed = Delegate(BOUND_THIS, args)]]
    /\ record' = [record EXCEPT ![c] = NewRecord(OPENAI_METHOD, OpenAIKwargs(args))]
    /\ UNCHANGED <<procs, qry, ser, WAREHOUSE_URL, WAREHOUSE_KEY, DEBUG, now, snd, handed, fetchLog, consumed>>

\* generateText(args) etc., as handed back by patchVercelAIFunctions: up to
\* `await originalMethod.apply(this, args)`, or to the throw that building the
\* record ends in
CallVercel(c, method, args) ==
    /\ call[c].pc = "idle"
    /\ LET kwargs == VercelKwargs(args)
       IN IF kwargs.threw
          THEN /\ call' = [call EXCEPT ![c] =
                             [Frame("done", "vercel", method, args, now)
                                EXCEPT !.outcome = Settled("rejected", kwargs.err)]]
               /\ UNCHANGED record
          ELSE /\ call' = [call EXCEPT ![c] =
                             [Frame("invoking", "vercel", method, args, now)
                                EXCEPT !.invocations = 1,
                                       !.passed = Delegate(Absent, args)]]
               /\ record' = [record EXCEPT ![c] = NewRecord(method, kwargs.val)]
    /\ UNCHANGED <<procs, qry, ser, WAREHOUSE_URL, WAREHOUSE_KEY, DEBUG, now, snd, handed, fetchLog, consumed>>

\* await send(rec), called directly
SendDirect(c, rec) ==
    /\ call[c].pc = "idle"
    /\ AwaitSend(c, Frame("awaitSend", "send", "send", NoArgs, now), rec, "none",
                 Settled("resolved", NoValue))
    /\ UNCHANGED <<procs, qry, ser, WAREHOUSE_URL, WAREHOUSE_KEY, DEBUG, now, consumed>>

-----------------------------------------------------------------------------
(* The underlying implementation *)

UnderlyingResolves(c, result, delay) ==
    /\ call[c].pc = "invoking"
    /\ call' = [call EXCEPT ![c].pc = "settled", ![c].under = Settled("resolved", result)]
    /\ now' = now + delay
    /\ UNCHANGED <<procs, qry, ser, WAREHOUSE_URL, WAREHOUSE_KEY, DEBUG, record, snd, handed, fetchLog, consumed>>

UnderlyingRejects(c, error, delay) ==
    /\ call[c].pc = "invoking"
    /\ call' = [call EXCEPT ![c].pc = "settled", ![c].under = Settled("rejected", error)]
    /\ now' = now + delay
    /\ UNCHANGED <<procs, qry, ser, WAREHOUSE_URL, WAREHOUSE_KEY, DEBUG, record, snd, handed, fetchLog, consumed>>

-----------------------------------------------------------------------------
(* The wrappers *)

\* The wrapper resumes after `await originalMethod.apply(this, args)` with a result.
AfterResolve(c) ==
    /\ call[c].pc = "settled"
    /\ call[c].under.state = "resolved"
    /\ LET f == [call[c] EXCEPT !.resumedAt = now]
           latency == now - f.startTime
           tried == IF f.surface = "openai"
                    THEN OpenAITry(record[c], f.args, f.under.val, latency)
                    ELSE VercelTry(record[c], f.args, f.under.val, latency)
       IN /\ consumed' = [consumed EXCEPT ![c] = @ + tried.taken]
          /\ IF tried.thrown # NoValue
             THEN RunCatch(c, tried.record, tried.thrown)
             ELSE AwaitSend(c, f, tried.record, "try", Settled("resolved", f.under.val))
    /\ UNCHANGED <<procs, qry, ser, WAREHOUSE_URL, WAREHOUSE_KEY, DEBUG, now>>

\* The await of the underlying call throws into the wrapper's catch.
AfterReject(c) ==
    /\ call[c].pc = "settled"
    /\ call[c].under.state = "rejected"
    /\ RunCatch(c, record[c], call[c].under.val)
    /\ UNCHANGED <<procs, qry, ser, WAREHOUSE_URL, WAREHOUSE_KEY, DEBUG, now, consumed>>

\* The wrapper resumes after `await send(record)`.
WrapperAfterSend(c) ==
    /\ call[c].pc = "awaitSend"
    /\ call[c].surface # "send"
    /\ snd[c].pc = "done"
    /\ IF snd[c].status = "resolved"
       THEN Settle(c, record[c], call[c].after)
       ELSE IF call[c].phase = "try"
       THEN RunCatch(c, record[c], snd[c].err)
       ELSE Settle(c, record[c], Settled("rejected", snd[c].err))
    /\ UNCHANGED <<procs, qry, ser, WAREHOUSE_URL, WAREHOUSE_KEY, DEBUG, now, consumed>>

\* The direct caller resumes after `await send(record)`.
DirectAfterSend(c) ==
    /\ call[c].pc = "awaitSend"
    /\ call[c].surface = "send"
    /\ snd[c].pc = "done"
    /\ Settle(c, record[c],
              IF snd[c].status = "resolved" THEN call[c].after
              ELSE Settled("rejected", snd[c].err))
    /\ UNCHANGED <<procs, qry, ser, WAREHOUSE_URL, WAREHOUSE_KEY, DEBUG, now, consumed>>

-----------------------------------------------------------------------------
(* The network layer *)

\* fetch resolves with a response, 2xx (ok) or not
FetchResolves(c, ok) ==
    /\ snd[c].pc = "awaitFetch"
    /\ snd' = [snd EXCEPT ![c].pc = "fetched", ![c].net = IF ok THEN "ok" ELSE "notOk"]
    /\ UNCHANGED <<procs, qry, ser, WAREHOUSE_URL, WAREHOUSE_KEY, DEBUG, now, call, record, handed, fetchLog, consumed>>

FetchRejects(c) ==
    /\ snd[c].pc = "awaitFetch"
    /\ snd' = [snd EXCEPT ![c].pc = "fetchRejected", ![c].net = "rejected"]
    /\ UNCHANGED <<procs, qry, ser, WAREHOUSE_URL, WAREHOUSE_KEY, DEBUG, now, call, record, handed, fetchLog, consumed>>

\* response.text() resolves
TextResolves(c) ==
    /\ snd[c].pc = "awaitText"
    /\ snd' = [snd EXCEPT ![c].pc = "texted", ![c].net = "bodyRead"]
    /\ UNCHANGED <<procs, qry, ser, WAREHOUSE_URL, WAREHOUSE_KEY, DEBUG, now, call, record, handed, fetchLog, consumed>>

\* response.text() rejects
TextRejects(c) ==
    /\ snd[c].pc = "awaitText"
    /\ snd' = [snd EXCEPT ![c].pc = "textRejected", ![c].net = "bodyFailed"]
    /\ UNCHANGED <<procs, qry, ser, WAREHOUSE_URL, WAREHOUSE_KEY, DEBUG, now, call, record, handed, fetchLog, consumed>>

-----------------------------------------------------------------------------
(* send, after its awaits *)

\* send resumes after `await fetch(...)`
SendAfterFetch(c) ==
    /\ snd[c].pc \in {"fetched", "fetchRejected"}
    /\ snd' = [snd EXCEPT ![c] =
                 IF snd[c].pc = "fetchRejected"
                 THEN SendFrame("done", SendCatch(FetchError), snd[c].net)
                 ELSE IF snd[c].net = "notOk" /\ DEBUG
                 THEN SendFrame("awaitText", SendPending, snd[c].net)
                 ELSE SendFrame("done", SendResolved, snd[c].net)]
    /\ UNCHANGED <<procs, qry, ser, WAREHOUSE_URL, WAREHOUSE_KEY, DEBUG, now, call, record, handed, fetchLog, consumed>>

\* send resumes after `await response.text()`
SendAfterText(c) ==
    /\ snd[c].pc \in {"texted", "textRejected"}
    /\ snd' = [snd EXCEPT ![c] =
                 IF snd[c].pc = "textRejected"
                 THEN SendFrame("done", SendCatch(BodyError), snd[c].net)
                 ELSE SendFrame("done", SendResolved, snd[c].net)]
    /\ UNCHANGED <<procs, qry, ser, WAREHOUSE_URL, WAREHOUSE_KEY, DEBUG, now, call, record, handed, fetchLog, consumed>>

-----------------------------------------------------------------------------

\* The steps of the program itself: the event loop runs each once it is ready.
ProgramStep ==
    \E c \in Slots :
        \/ AfterResolve(c)
        \/ AfterReject(c)
        \/ WrapperAfterSend(c)
        \/ DirectAfterSend(c)
        \/ SendAfterFetch(c)
        \/ SendAfterText(c)

Next ==
    \/ \E c \in Slots, args \in Args, self \in {BOUND_THIS, Absent} : CallOpenAI(c, args, self)
    \/ \E c \in Slots, method \in VercelMethods, args \in Args : CallVercel(c, method, args)
    \/ \E c \in Slots, rec \in DirectRecords : SendDirect(c, rec)
    \/ \E c \in Slots, result \in Results, delay \in 0..MaxDelay :
            UnderlyingResolves(c, result, delay)
    \/ \E c \in Slots, error \in Errors, delay \in 0..MaxDelay :
            UnderlyingRejects(c, error, delay)
    \/ \E c \in Slots, ok \in BOOLEAN : FetchResolves(c, ok)
    \/ \E c \in Slots : FetchRejects(c)
    \/ \E c \in Slots : TextResolves(c)
    \/ \E c \in Slots : TextRejects(c)
    \/ ProgramStep

Spec == Init /\ [][Next]_vars

\* The event loop runs every continuation that is ready.  Nothing makes the
\* underlying call, fetch or response.text() settle.
FairSpec == Spec /\ WF_vars(ProgramStep)

-----------------------------------------------------------------------------
(* The host program and the module state: installPatch, patch, status *)

\* What the installation and query steps leave alone.
WrappersUnchanged == UNCHANGED <<WAREHOUSE_URL, WAREHOUSE_KEY, DEBUG, now, call, record, snd,
                                 handed, fetchLog, consumed, ser>>

InstallInit ==
    /\ WAREHOUSE_URL = Host
    /\ WAREHOUSE_KEY \in Tokens
    /\ DEBUG = FALSE
    /\ now = 0
    /\ call = [c \in Slots |-> Idle]
    /\ record = [c \in Slots |-> NoRecord]
    /\ snd = [c \in Slots |-> SendIdle]
    /\ handed = [c \in Slots |-> <<>>]
    /\ fetchLog = <<>>
    /\ consumed = [c \in Slots |-> 0]
    /\ qry = QueryIdle
    /\ ser = SerializeIdle
    /\ \E token \in {WAREHOUSE_KEY, "secret-key-123"}, cache \in {OriginalEntry, NoEntry},
          envEnabled \in {Absent, "1"} :
           procs = [p \in Processes |->
                      Process(IF p = "host" THEN WAREHOUSE_KEY ELSE token, cache, envEnabled)]

\* The host may make another call.
MayCall == \A p \in Processes : procs[p].calls < MaxCalls

\* import 'llm-warehouse': index.ts runs, with its auto-patch
Import(fail) ==
    /\ \A p \in Processes : ~procs[p].imported
    /\ procs' = [p \in Processes |->
                   autoPatch([procs[p] EXCEPT !.lastCall = "import", !.threw = FALSE], fail)]
    /\ UNCHANGED qry
    /\ WrappersUnchanged

\* installPatch() called by the host
CallInstallPatch(fail) ==
    /\ MayCall
    /\ procs' = [p \in Processes |->
                   LET r == installPatch(Called(procs[p], "installPatch"), fail)
                   IN [r.proc EXCEPT !.threw = r.threw]]
    /\ UNCHANGED qry
    /\ WrappersUnchanged

\* patch({enabled, debug}) called by the host
CallPatch(enabled, debug, fail) ==
    /\ MayCall
    /\ procs' = [p \in Processes |->
                   patch(Called(procs[p], IF enabled THEN "patch" ELSE "patch(disabled)"),
                         enabled, debug, fail)]
    /\ UNCHANGED qry
    /\ WrappersUnchanged

\* status() called by the host
CallStatus ==
    /\ MayCall
    /\ procs' = [p \in Processes |->
                   LET c == Called(procs[p], "status")
                   IN [c EXCEPT !.snapshot = status(c, WAREHOUSE_URL)]]
    /\ UNCHANGED qry
    /\ WrappersUnchanged

InstallNext ==
    \/ \E fail \in InstallSteps \cup {NoFailure} : Import(fail)
    \/ \E fail \in InstallSteps \cup {NoFailure} : CallInstallPatch(fail)
    \/ \E enabled \in BOOLEAN, debug \in BOOLEAN, fail \in InstallSteps \cup {NoFailure} :
            CallPatch(enabled, debug, fail)
    \/ CallStatus

InstallSpec == InstallInit /\ [][InstallNext]_vars

-----------------------------------------------------------------------------
(* getRecentLogs *)

QueryInit ==
    /\ WAREHOUSE_URL \in Urls
    /\ WAREHOUSE_KEY \in Keys
    /\ DEBUG = FALSE
    /\ now = 0
    /\ call = [c \in Slots |-> Idle]
    /\ record = [c \in Slots |-> NoRecord]
    /\ snd = [c \in Slots |-> SendIdle]
    /\ handed = [c \in Slots |-> <<>>]
    /\ fetchLog = <<>>
    /\ consumed = [c \in Slots |-> 0]
    /\ procs = [p \in Processes |-> Process(WAREHOUSE_KEY, OriginalEntry, Absent)]
    /\ qry = QueryIdle
    /\ ser = SerializeIdle

\* if (!WAREHOUSE_URL || !WAREHOUSE_KEY) of getFlaskLogs
QuerySkips(url, key) == ~Truthy(url) \/ ~JsTruthy(key)

\* getRecentLogs(limit), up to `await fetch(...)` or the early return
GetRecentLogs(limit) ==
    /\ qry.pc = "idle"
    /\ qry' = IF QuerySkips(WAREHOUSE_URL, WAREHOUSE_KEY)
              THEN QueryReturn(QueryFrame("done", limit, 0), <<>>)
              ELSE [QueryFrame("awaitFetch", limit, 1)
                      EXCEPT !.url = QueryUrl(WAREHOUSE_URL, limit)]
    /\ UNCHANGED procs
    /\ WrappersUnchanged

\* fetch resolves with a 2xx response whose body is `body`
QueryFetchOk(body) ==
    /\ qry.pc = "awaitFetch"
    /\ qry' = [qry EXCEPT !.pc = "fetched", !.net = "ok", !.body = body]
    /\ UNCHANGED procs
    /\ WrappersUnchanged

\* fetch resolves with a non-2xx response
QueryFetchNotOk ==
    /\ qry.pc = "awaitFetch"
    /\ qry' = [qry EXCEPT !.pc = "fetched", !.net = "notOk"]
    /\ UNCHANGED procs
    /\ WrappersUnchanged

QueryFetchRejects ==
    /\ qry.pc = "awaitFetch"
    /\ qry' = [qry EXCEPT !.pc = "fetchRejected", !.net = "rejected"]
    /\ UNCHANGED procs
    /\ WrappersUnchanged

\* getFlaskLogs resumes after `await fetch(...)`
QueryAfterFetch ==
    /\ qry.pc \in {"fetched", "fetchRejected"}
    /\ qry' = IF qry.pc = "fetchRejected" THEN QueryCatch(qry)
              ELSE IF qry.net = "ok" THEN [qry EXCEPT !.pc = "awaitJson"]
              ELSE [qry EXCEPT !.pc = "awaitText"]
    /\ UNCHANGED procs
    /\ WrappersUnchanged

\* response.json() settles: it rejects on a malformed body
QueryJsonSettles ==
    /\ qry.pc = "awaitJson"
    /\ qry' = [qry EXCEPT !.pc = IF qry.body = "malformed" THEN "parseRejected" ELSE "parsed"]
    /\ UNCHANGED procs
    /\ WrappersUnchanged

\* getFlaskLogs resumes after `await response.json()`
QueryAfterJson ==
    /\ qry.pc \in {"parsed", "parseRejected"}
    /\ qry' = IF qry.pc = "parseRejected" THEN QueryCatch(qry) ELSE QueryAfterParse(qry)
    /\ UNCHANGED procs
    /\ WrappersUnchanged

QueryTextResolves ==
    /\ qry.pc = "awaitText"
    /\ qry' = [qry EXCEPT !.pc = "texted", !.net = "notOkBodyRead"]
    /\ UNCHANGED procs
    /\ WrappersUnchanged

QueryTextRejects ==
    /\ qry.pc = "awaitText"
    /\ qry' = [qry EXCEPT !.pc = "textRejected", !.net = "notOkBodyFailed"]
    /\ UNCHANGED procs
    /\ WrappersUnchanged

\* getFlaskLogs resumes after `await response.text()`: console.error, return []
QueryAfterText ==
    /\ qry.pc \in {"texted", "textRejected"}
    /\ qry' = IF qry.pc = "textRejected" THEN QueryCatch(qry) ELSE QueryReturn(qry, <<>>)
    /\ UNCHANGED procs
    /\ WrappersUnchanged

QueryNext ==
    \/ \E limit \in Limits : GetRecentLogs(limit)
    \/ \E body \in Bodies : QueryFetchOk(body)
    \/ QueryFetchNotOk
    \/ QueryFetchRejects
    \/ QueryAfterFetch
    \/ QueryJsonSettles
    \/ QueryAfterJson
    \/ QueryTextResolves
    \/ QueryTextRejects
    \/ QueryAfterText

QuerySpec == QueryInit /\ [][QueryNext]_vars

-----------------------------------------------------------------------------
(* A host that installs, constructs a client and calls it *)

ClientInit ==
    /\ WAREHOUSE_URL = Host
    /\ WAREHOUSE_KEY = "test-key"
    /\ DEBUG = FALSE
    /\ now = 0
    /\ call = [c \in Slots |-> Idle]
    /\ record = [c \in Slots |-> NoRecord]
    /\ snd = [c \in Slots |-> SendIdle]
    /\ handed = [c \in Slots |-> <<>>]
    /\ fetchLog = <<>>
    /\ consumed = [c \in Slots |-> 0]
    /\ qry = QueryIdle
    /\ ser = SerializeIdle
    /\ \E envEnabled \in {Absent, "1"} :
           procs = [p \in Processes |-> Process(WAREHOUSE_KEY, OriginalEntry, envEnabled)]

\* new OpenAI() by the host, after `import OpenAI from 'openai'`
Construct ==
    /\ MayCall
    /\ procs' = [p \in Processes |->
                   LET c == Called(procs[p], "construct")
                   IN [c EXCEPT !.client = Constructs(c)]]
    /\ UNCHANGED qry
    /\ WrappersUnchanged

\* client.chat.completions.create(args) on the instance the host holds, when
\* the replacement constructor has wrapped it
ClientCall(c, args) ==
    /\ procs["host"].client = "wrapped"
    /\ CallOpenAI(c, args, BOUND_THIS)

ClientNext ==
    \/ \E fail \in {NoFailure, "assignDefault"} : CallInstallPatch(fail)
    \/ \E enabled \in BOOLEAN, fail \in {NoFailure, "assignDefault"} : CallPatch(enabled, FALSE, fail)
    \/ Construct
    \/ \E c \in Slots, args \in {a \in Args : a.ref \in {Absent, "params", "streamParams"}} :
          ClientCall(c, args)
    \/ \E c \in Slots, args \in {a \in Args : a.ref \in {Absent, "params"}} :
          CallVercel(c, "ai.generateText", args)
    \/ \E c \in Slots, result \in {r \in Results : r.ref \in {"completion", "sdkResponse", "idThrows"}} :
          UnderlyingResolves(c, result, MaxDelay)
    \/ \E c \in Slots, error \in {e \in Errors : e.ref = "rateLimit"} :
          UnderlyingRejects(c, error, MaxDelay)
    \/ \E c \in Slots : AfterResolve(c)
    \/ \E c \in Slots : AfterReject(c)
    \/ \E c \in Slots : FetchResolves(c, TRUE)
    \/ \E c \in Slots : SendAfterFetch(c)
    \/ \E c \in Slots : WrapperAfterSend(c)

ClientSpec == ClientInit /\ [][ClientNext]_vars

-----------------------------------------------------------------------------
(* The endpoints of send and getRecentLogs, for base URLs of up to MaxPath segments *)

EndpointInit ==
    /\ WAREHOUSE_URL \in BaseUrls
    /\ WAREHOUSE_KEY = "test-key"
    /\ DEBUG = FALSE
    /\ now = 0
    /\ call = [c \in Slots |-> Idle]
    /\ record = [c \in Slots |-> NoRecord]
    /\ snd = [c \in Slots |-> SendIdle]
    /\ handed = [c \in Slots |-> <<>>]
    /\ fetchLog = <<>>
    /\ consumed = [c \in Slots |-> 0]
    /\ procs = [p \in Processes |-> Process(WAREHOUSE_KEY, OriginalEntry, Absent)]
    /\ qry = QueryIdle
    /\ ser = SerializeIdle

EndpointNext ==
    \/ \E c \in Slots, rec \in {NewRecord("test.method", Kwargs("{}", TRUE, FALSE))} :
          SendDirect(c, rec)
    \/ \E c \in Slots : FetchResolves(c, TRUE)
    \/ \E c \in Slots : SendAfterFetch(c)
    \/ \E c \in Slots : DirectAfterSend(c)
    \/ \E limit \in Limits : GetRecentLogs(limit)
    \/ QueryFetchOk("logs2")
    \/ QueryAfterFetch
    \/ QueryJsonSettles
    \/ QueryAfterJson

EndpointSpec == EndpointInit /\ [][EndpointNext]_vars

-----------------------------------------------------------------------------
(* serialize(obj), called on its own *)

\* The values serialize is called with: the results and errors above, and
\* objects with every combination of a toJSON method, a serialize method, a
\* cycle, and a toString that cannot be called.
SerializeInputs ==
    Results \cup Errors
        \cup { [JSObject EXCEPT !.ref = "value", !.toJSON = t, !.serializeFn = f,
                                !.cyclic = cyc, !.str = str] :
                 t \in {"none", "ok", "throws"}, f \in {"none", "ok", "throws"},
                 cyc \in BOOLEAN, str \in {"[object Object]", Throws} }

SerializeInit ==
    /\ WAREHOUSE_URL = Host
    /\ WAREHOUSE_KEY = "test-key"
    /\ DEBUG = FALSE
    /\ now = 0
    /\ call = [c \in Slots |-> Idle]
    /\ record = [c \in Slots |-> NoRecord]
    /\ snd = [c \in Slots |-> SendIdle]
    /\ handed = [c \in Slots |-> <<>>]
    /\ fetchLog = <<>>
    /\ consumed = [c \in Slots |-> 0]
    /\ procs = [p \in Processes |-> Process(WAREHOUSE_KEY, OriginalEntry, Absent)]
    /\ qry = QueryIdle
    /\ ser \in {SerializeFrame("called", obj) : obj \in SerializeInputs}

SerializeUnchanged ==
    UNCHANGED <<WAREHOUSE_URL, WAREHOUSE_KEY, DEBUG, now, call, record, snd, handed,
                fetchLog, consumed, procs, qry>>

\* The try block of serialize runs: it returns, or throws into the catch.
SerializeRunsTry ==
    /\ ser.pc = "called"
    /\ LET tried == SerializeTry(ser.obj)
       IN ser' = [ser EXCEPT !.pc = IF tried.threw THEN "catch" ELSE "done",
                             !.tried = <<Conversion(ser.obj)>>,
                             !.out = tried]
    /\ SerializeUnchanged

\* catch { return String(obj) }
SerializeRunsCatch ==
    /\ ser.pc = "catch"
    /\ ser' = [ser EXCEPT !.pc = "done", !.tried = Append(@, "string"),
                          !.out = SerializeFallback(ser.obj)]
    /\ SerializeUnchanged

SerializeNext ==
    \/ SerializeRunsTry
    \/ SerializeRunsCatch

SerializeSpec == SerializeInit /\ [][SerializeNext]_vars

-----------------------------------------------------------------------------
(* Two wrapped calls in flight at once *)

ConcSlots == {"c1", "c2"}

\* What the two concurrent calls are made with and what they get back.
ConcArgs == {a \in ArgObjects : ~a.cyclic}
ConcErrors == {e \in Errors : e.ref = "rateLimit"}

ConcInit ==
    /\ WAREHOUSE_URL = Host
    /\ WAREHOUSE_KEY = "test-key"
    /\ DEBUG = FALSE
    /\ now = 0
    /\ call = [c \in ConcSlots |-> Idle]
    /\ record = [c \in ConcSlots |-> NoRecord]
    /\ snd = [c \in ConcSlots |-> SendIdle]
    /\ handed = [c \in ConcSlots |-> <<>>]
    /\ fetchLog = <<>>
    /\ consumed = [c \in ConcSlots |-> 0]
    /\ procs = [p \in Processes |-> Process(WAREHOUSE_KEY, OriginalEntry, Absent)]
    /\ qry = QueryIdle
    /\ ser = SerializeIdle

ConcNext ==
    \/ \E c \in ConcSlots, args \in ConcArgs : CallOpenAI(c, args, BOUND_THIS)
    \/ \E c \in ConcSlots, args \in ConcArgs : CallVercel(c, "ai.generateText", args)
    \/ \E c \in ConcSlots, result \in {r \in Results : r.ref \in {"completion", "generated"}}, delay \in 0..MaxDelay :
            UnderlyingResolves(c, result, delay)
    \/ \E c \in ConcSlots, error \in ConcErrors, delay \in 0..MaxDelay :
            UnderlyingRejects(c, error, delay)
    \/ \E c \in ConcSlots : AfterResolve(c)
    \/ \E c \in ConcSlots : AfterReject(c)
    \/ \E c \in ConcSlots : FetchResolves(c, TRUE)
    \/ \E c \in ConcSlots : SendAfterFetch(c)
    \/ \E c \in ConcSlots : WrapperAfterSend(c)

ConcSpec == ConcInit /\ [][ConcNext]_vars

-----------------------------------------------------------------------------
(* Properties *)

\* A call through one of the two wrapped surfaces.
Wrapped(c) == call[c].surface \in {"openai", "vercel"}

UnderlyingResolved(c) == Wrapped(c) /\ call[c].under.state = "resolved"
UnderlyingRejected(c) == Wrapped(c) /\ call[c].under.state = "rejected"

\* C1: when the underlying call resolved, a failure of the observation layer
\* (serializing, reading id / textStream / objectStream / usage, delivering)
\* neither rejects the wrapped call nor is recorded as the call's error.
ObservationFailureNeverSurfaces ==
    \A c \in Slots :
        UnderlyingResolved(c) =>
            /\ call[c].outcome.state # "rejected"
            /\ record[c].error = Absent
            /\ \A i \in DOMAIN handed[c] : handed[c][i].error = Absent

\* C2: when the underlying implementation resolved, the wrapped call resolves
\* with the identical result value.
ResultReturnedUnmodified ==
    \A c \in Slots :
        UnderlyingResolved(c) /\ call[c].pc = "done" =>
            call[c].outcome = Settled("resolved", call[c].under.val)

\* C3: when the underlying implementation rejected with e, the wrapped call
\* rejects with the same e and exactly one record was handed to the transport,
\* with error the stringified e, no response, and latency_s >= 0.
RejectionPropagatedAndRecorded ==
    \A c \in Slots :
        UnderlyingRejected(c) /\ call[c].pc \in {"awaitSend", "done"} =>
            /\ call[c].pc = "done" =>
                   call[c].outcome = Settled("rejected", call[c].under.val)
            /\ Len(handed[c]) = 1
            /\ handed[c][1].error = StringOf(call[c].under.val)
            /\ handed[c][1].response = <<>>
            /\ handed[c][1].latency_s # <<>>
            /\ handed[c][1].latency_s[1] >= 0

\* C4: a record handed to the transport for a call that succeeded has no error,
\* a response and latency_s >= 0; every record handed over by a wrapper has
\* exactly one of response and error.
HandedRecordsWellFormed ==
    \A c \in Slots :
        Wrapped(c) =>
            \A i \in DOMAIN handed[c] :
                LET r == handed[c][i]
                IN /\ (r.response # <<>>) # (r.error # Absent)
                   /\ UnderlyingResolved(c) =>
                          /\ r.error = Absent
                          /\ r.response # <<>>
                          /\ r.latency_s # <<>>
                          /\ r.latency_s[1] >= 0

\* C5: once the underlying call has settled, the wrapped call eventually
\* settles, whatever the network layer does with the delivery request.
WrappedCallEventuallySettles ==
    \A c \in Slots : (call[c].pc = "settled") ~> (call[c].pc = "done")

\* C6: send always resolves and never rejects: after a 2xx response, a
\* non-2xx response (debug or not, the body read or failing to be read), a
\* rejected request, or no request at all.
SendAlwaysResolves ==
    \A c \in Slots :
        /\ snd[c].status # "rejected"
        /\ snd[c].pc = "done" => snd[c].status = "resolved"
        /\ call[c].surface = "send" /\ call[c].pc = "done" =>
               call[c].outcome = Settled("resolved", NoValue)

\* A send that resolved although reading the error body of a non-2xx response failed.
SendResolvedAfterBodyFailure ==
    \E c \in Slots :
        /\ DEBUG
        /\ snd[c].pc = "done" /\ snd[c].net = "bodyFailed" /\ snd[c].status = "resolved"
        /\ call[c].surface = "send" /\ call[c].pc = "done"

\* The destination URL or the access token is missing or empty.
NotConfigured ==
    \/ WAREHOUSE_URL \in {Undefined, <<>>}
    \/ WAREHOUSE_KEY \in {Absent, ""}

\* C7: with the URL or the token missing or empty, send never invokes the
\* network layer, for any record, and resolves.
NoNetworkWhenNotConfigured ==
    NotConfigured =>
        /\ fetchLog = <<>>
        /\ \A c \in Slots :
               /\ snd[c].pc \in {"idle", "done"}
               /\ snd[c].pc = "done" => snd[c].status = "resolved" /\ snd[c].net = "none"

\* A send that returned with an empty token and a URL that is set.
SendSkippedWithEmptyToken ==
    \E c \in Slots :
        /\ WAREHOUSE_KEY = "" /\ WAREHOUSE_URL = Host
        /\ Len(handed[c]) = 1 /\ snd[c].pc = "done" /\ call[c].pc = "done"
        /\ fetchLog = <<>>

\* C8: endpoint resolution is idempotent; a URL ending in '/llm-logs' is used
\* as it is; 'http://h/llm-logs' and 'http://h/' both give 'http://h/llm-logs'.
EndpointResolutionIdempotent ==
    \A i \in DOMAIN fetchLog :
        LET resolved == fetchLog[i].url
        IN /\ ResolveEndpoint(resolved) = resolved
           /\ EndsWith(WAREHOUSE_URL, LLM_LOGS) => resolved = WAREHOUSE_URL
           /\ WAREHOUSE_URL \in {Host \o LLM_LOGS, Host \o <<"/">>} =>
                  resolved = Host \o LLM_LOGS

\* A request was made with the URL configured as 'http://h/'.
RequestMadeFromTrailingSlashUrl ==
    /\ WAREHOUSE_URL = Host \o <<"/">>
    /\ Len(fetchLog) = 1
    /\ fetchLog[1].url = Host \o LLM_LOGS

\* The record as it was handed to the last send of a slot.
LastHanded(c) == handed[c][Len(handed[c])]

\* The three fields send may fill, taken from another record.
WithMetadataOf(rec, other) ==
    [rec EXCEPT !.timestamp = other.timestamp, !.source = other.source, !.env = other.env]

\* C9, as the code has it: send replaces timestamp, source and env by the
\* defaults exactly when the field is absent or empty (falsy); a non-empty
\* value set by the caller is kept, and no other field is changed.
SendFillsAbsentOrEmptyMetadataOnly ==
    \A c \in Slots :
        Len(handed[c]) > 0 =>
            LET before == LastHanded(c)
                after == record[c]
            IN /\ after.timestamp = IF before.timestamp \in {Absent, ""}
                                    THEN DEFAULT_TIMESTAMP ELSE before.timestamp
               /\ after.source = IF before.source \in {Absent, ""}
                                 THEN DEFAULT_SOURCE ELSE before.source
               /\ after.env = IF before.env = Absent THEN DEFAULT_ENV ELSE before.env
               /\ WithMetadataOf(after, before) = before

\* C9, as stated: only absent fields are filled; a value the caller set is
\* never overwritten; no other field is changed.
SendFillsAbsentMetadataOnly ==
    \A c \in Slots :
        Len(handed[c]) > 0 =>
            LET before == LastHanded(c)
                after == record[c]
            IN /\ after.timestamp = IF before.timestamp = Absent
                                    THEN DEFAULT_TIMESTAMP ELSE before.timestamp
               /\ after.source = IF before.source = Absent
                                 THEN DEFAULT_SOURCE ELSE before.source
               /\ after.env = IF before.env = Absent THEN DEFAULT_ENV ELSE before.env
               /\ WithMetadataOf(after, before) = before

\* A direct send that kept the caller's source and env and filled the timestamp.
SendKeptCallerMetadata ==
    \E c \in Slots :
        /\ call[c].surface = "send" /\ call[c].pc = "done"
        /\ LastHanded(c).timestamp = Absent
        /\ LastHanded(c).source = "custom-source"
        /\ LastHanded(c).env = "{custom env}"
        /\ record[c].timestamp = DEFAULT_TIMESTAMP
        /\ record[c].source = "custom-source"
        /\ record[c].env = "{custom env}"

\* A streaming call: the chat request has stream set, or the generation
\* result carries textStream or objectStream.
Streaming(c) ==
    /\ UnderlyingResolved(c)
    /\ \/ call[c].surface = "openai" /\ call[c].args.stream
       \/ /\ call[c].surface = "vercel"
          /\ IsObject(call[c].under.val)
          /\ \/ call[c].under.val.textStream \notin {Absent, Throws}
             \/ call[c].under.val.objectStream \notin {Absent, Throws}

\* C10: for a streaming call the logging layer takes no element from the
\* stream, and the caller receives the handle the underlying call returned.
StreamNeverConsumed ==
    \A c \in Slots :
        Streaming(c) =>
            /\ consumed[c] = 0
            /\ call[c].pc = "done" =>
                   call[c].outcome = Settled("resolved", call[c].under.val)

\* A streaming call returned its stream of MaxChunks elements, none taken.
StreamReturnedIntact ==
    \E c \in Slots :
        /\ Streaming(c)
        /\ call[c].pc = "done"
        /\ call[c].under.val.chunks = MaxChunks
        /\ call[c].outcome.val = call[c].under.val
        /\ consumed[c] = 0
        /\ Len(handed[c]) = 1

\* C11: for a streaming call the recorded response is exactly the fixed
\* sentinel string: 'streaming_response' when the chat request has stream
\* set, 'vercel_ai_streaming_response' when a generation result carries
\* textStream or objectStream.
StreamingResponseIsSentinel ==
    \A c \in Slots :
        Streaming(c) =>
            \A i \in DOMAIN handed[c] :
                /\ handed[c][i].response =
                       IF call[c].surface = "openai" THEN STREAMING_RESPONSE
                       ELSE VERCEL_STREAMING_RESPONSE
                /\ record[c].response = handed[c][i].response

\* A chat call with stream set recorded 'streaming_response' for a stream of
\* MaxChunks elements.
ChatStreamRecordedAsSentinel ==
    \E c \in Slots :
        /\ call[c].surface = "openai" /\ call[c].args.stream
        /\ call[c].pc = "done"
        /\ call[c].under.state = "resolved" /\ call[c].under.val.chunks = MaxChunks
        /\ Len(handed[c]) = 1
        /\ handed[c][1].response = <<"string", "streaming_response">>

\* C12, as the code has it: installPatch completes its installation at most
\* once per process, and once it has, every later installPatch(), patch() or
\* import leaves the module-cache entry and the applied flag as they are and
\* does not enter the replacement logic again.
InstallCompletesAtMostOnce ==
    [][\A p \in Processes :
          /\ procs'[p].completed <= 1
          /\ procs[p]._patchApplied =>
                 /\ procs'[p]._patchApplied
                 /\ procs'[p].cache = procs[p].cache
                 /\ procs'[p].attempts = procs[p].attempts]_vars

\* C12, as stated: over any sequence of installPatch() and patch() calls the
\* replacement logic is entered at most once.
ReplacementLogicRunsAtMostOnce ==
    \A p \in Processes : procs[p].attempts <= 1

\* installPatch() was called again after a completed installation and
\* returned at its flag check.
InstallRepeatedAsNoop ==
    \E p \in Processes :
        /\ procs[p].completed = 1 /\ procs[p].attempts = 1 /\ procs[p].noops >= 1
        /\ procs[p].cache = PatchedEntry
        /\ procs[p].lastCall = "installPatch"

\* C13: a failure of an installation step never reaches the host:
\* installPatch(), patch(options) and the import return normally.
InstallFailureNeverPropagates ==
    \A p \in Processes : ~procs[p].threw

\* A direct installPatch() whose assignment to the cache entry failed returned normally.
DirectInstallFailedQuietly ==
    \E p \in Processes :
        /\ procs[p].lastCall = "installPatch"
        /\ procs[p].lastFailure = "assignDefault"
        /\ ~procs[p]._patchApplied
        /\ ~procs[p].threw

\* C14: a failed installation is all-or-nothing: while the applied flag is
\* false the cache entry is the original one, and the entry is never
\* overwritten in one of its two places only.
FailedInstallLeavesCacheOriginal ==
    \A p \in Processes :
        /\ procs[p].cache \in {OriginalEntry, NoEntry, PatchedEntry}
        /\ ~procs[p]._patchApplied => procs[p].cache \in {OriginalEntry, NoEntry}

\* C15: isPatched() is true only after installPatch completed its installation.
IsPatchedOnlyAfterInstall ==
    \A p \in Processes :
        /\ isPatched(procs[p]) => procs[p]._patchApplied
        /\ procs[p].snapshot.patched = "true" => procs[p]._patchApplied

\* C16: whenever the installation has been done, by whichever entry point,
\* isPatched() and status().patched are true.
IsPatchedWheneverInstalled ==
    \A p \in Processes :
        /\ procs[p]._patchApplied => isPatched(procs[p])
        /\ procs[p]._patchApplied /\ procs[p].lastCall = "status" =>
               procs[p].snapshot.patched = "true"

\* C17: status() shows the fixed placeholder when a token is configured and
\* undefined otherwise, and two processes that differ only in the value of a
\* configured token get identical snapshots.
StatusNeverExposesToken ==
    /\ \A p \in Processes :
           procs[p].snapshot.taken =>
               procs[p].snapshot.apiKey =
                   IF procs[p].token \in {Absent, ""} THEN Absent ELSE "***configured***"
    /\ procs["host"].token \notin {Absent, ""} /\ procs["twin"].token \notin {Absent, ""} =>
           procs["host"].snapshot = procs["twin"].snapshot

\* Two processes with different tokens took the same snapshot after patch().
TwinSnapshotsAgree ==
    /\ procs["host"].token = "test-key" /\ procs["twin"].token = "secret-key-123"
    /\ procs["host"].lastCall = "status"
    /\ procs["host"].snapshot.taken /\ procs["twin"].snapshot.taken
    /\ procs["host"].snapshot.patched = "true"
    /\ procs["host"].snapshot.apiKey = "***configured***"
    /\ procs["twin"].snapshot.apiKey = "***configured***"

\* C18: getRecentLogs never rejects; it resolves to the empty sequence when
\* the URL or token is missing (no request made), on a non-2xx response, on a
\* failed request and on a malformed body, and to the logs array, unchanged
\* and in order, on a 2xx response that has one.
GetRecentLogsNeverRejects ==
    /\ qry.outcome # "rejected"
    /\ NotConfigured => qry.fetches = 0 /\ qry.pc \in {"idle", "done"}
    /\ qry.pc = "done" =>
           /\ qry.outcome = "resolved"
           /\ qry.result = IF qry.net = "ok" /\ qry.body = "logs2"
                           THEN <<"log-b", "log-a">> ELSE <<>>

\* getRecentLogs returned the two logs of a 2xx response in their order.
RecentLogsReturnedInOrder ==
    /\ qry.pc = "done" /\ qry.net = "ok" /\ qry.body = "logs2"
    /\ qry.outcome = "resolved"
    /\ qry.result = <<"log-b", "log-a">>

\* The requests made for the record of slot c.
PostsOf(c) == {j \in DOMAIN fetchLog : fetchLog[j].slot = c}

\* C19: a wrapped invocation that has completed handed exactly one record to
\* the transport, and with URL and token configured made exactly one POST.
ExactlyOneRecordPerCall ==
    \A c \in DOMAIN call :
        Wrapped(c) /\ call[c].pc = "done" =>
            /\ Len(handed[c]) = 1
            /\ ~NotConfigured => Cardinality(PostsOf(c)) = 1

\* The record an invocation builds when it runs alone: from its own method,
\* arguments, result or error, and its own start and resumption times.
OwnRecord(c) ==
    LET f == call[c]
        latency == f.resumedAt - f.startTime
        fresh == NewRecord(f.method,
                           IF f.surface = "openai" THEN OpenAIKwargs(f.args)
                           ELSE VercelKwargs(f.args).val)
        tried == IF f.surface = "openai"
                 THEN OpenAITry(fresh, f.args, f.under.val, latency)
                 ELSE VercelTry(fresh, f.args, f.under.val, latency)
    IN IF f.under.state = "rejected" THEN CatchBlock(fresh, f.under.val, latency).record
       ELSE IF tried.thrown # NoValue THEN CatchBlock(tried.record, tried.thrown, latency).record
       ELSE tried.record

\* C20: under any interleaving of wrapped calls in flight, each record handed
\* to the transport and each request body is the one its own invocation
\* builds, whatever the other call does and in whatever order they complete.
RecordsCarryOwnInvocationOnly ==
    \A c \in DOMAIN call :
        /\ \A i \in DOMAIN handed[c] : handed[c][i] = OwnRecord(c)
        /\ \A j \in PostsOf(c) : fetchLog[j].body = AddDefaults(OwnRecord(c))

\* Two calls overlapped in time, the second one started delivered first, and
\* both completed.
OverlappingCallsCompleted ==
    /\ DOMAIN call = ConcSlots
    /\ call["c1"].pc = "done" /\ call["c2"].pc = "done"
    /\ call["c1"].surface = "openai" /\ call["c2"].surface = "vercel"
    /\ call["c1"].args # call["c2"].args
    /\ call["c1"].startTime = 0 /\ call["c2"].startTime = 0
    /\ call["c1"].resumedAt = 2 /\ call["c2"].resumedAt = 1
    /\ Len(fetchLog) = 2 /\ fetchLog[1].slot = "c2"

\* C27: patch({enabled: false}) makes isEnabled() false, also when the
\* environment flag had enabled observation, attempts no installation and
\* leaves the installed flag and the cache entry as they are; no call of
\* patch or installPatch makes isPatched() false once it is true.
DisableLeavesInstallationAlone ==
    [][\A p \in Processes :
          /\ isPatched(procs[p]) => isPatched(procs'[p])
          /\ procs'[p].calls = procs[p].calls + 1 /\ procs'[p].lastCall = "patch(disabled)" =>
                 /\ ~isEnabled(procs'[p])
                 /\ procs'[p].snapshot = procs[p].snapshot
                 /\ procs'[p].attempts = procs[p].attempts
                 /\ procs'[p].noops = procs[p].noops
                 /\ procs'[p].cache = procs[p].cache
                 /\ procs'[p]._patchApplied = procs[p]._patchApplied
                 /\ isPatched(procs'[p]) = isPatched(procs[p])]_vars

\* patch({enabled: false}) was called after a patch() that installed, in a
\* process started with the environment flag set: disabled, still patched.
DisabledAfterInstall ==
    \E p \in Processes :
        /\ procs[p].lastCall = "patch(disabled)"
        /\ procs[p].calls >= 2
        /\ procs[p].envEnabled = "0"
        /\ ~isEnabled(procs[p])
        /\ isPatched(procs[p]) /\ procs[p]._patchApplied
        /\ procs[p].cache = PatchedEntry

\* C30: the endpoint of send and of getRecentLogs ends with '/llm-logs'; a
\* base URL with one more trailing slash resolves to the endpoint of the base
\* URL without it, also when that one ends with '/llm-logs' already; and the
\* GET endpoint is the POST endpoint followed by '?limit=n'.
EndpointSameWithTrailingSlash ==
    LET withoutSlash == StripTrailingSlash(WAREHOUSE_URL)
    IN ~EndsWith(withoutSlash, <<"/">>) =>
       /\ \A i \in DOMAIN fetchLog :
              /\ EndsWith(fetchLog[i].url, LLM_LOGS)
              /\ fetchLog[i].url = ResolveEndpoint(withoutSlash)
       /\ qry.fetches = 1 =>
              /\ qry.url = ResolveEndpoint(WAREHOUSE_URL) \o LIMIT_QUERY \o LimitText(qry.limit)
              /\ qry.url = QueryUrl(withoutSlash, qry.limit)

SerializeFallsBackInOrder ==
    ser.pc = "done" =>
        /\ ~ser.out.threw
        /\ ser.out = serialize(ser.obj)
        /\ ser.tried[Len(ser.tried)] = "string" =>
               \A conversion \in Applicable(ser.obj) :
                   \E i \in DOMAIN ser.tried : ser.tried[i] = conversion

\* A generation function resolved with an object that has neither textStream
\* nor objectStream.
RegularGeneration(c) ==
    /\ call[c].surface = "vercel"
    /\ call[c].under.state = "resolved"
    /\ IsObject(call[c].under.val)
    /\ call[c].under.val.textStream = Absent
    /\ call[c].under.val.objectStream = Absent

AdditionalFieldsRecorded ==
    \A c \in DOMAIN call :
        RegularGeneration(c) /\ call[c].under.val.toolCalls \notin {Absent, Throws} =>
            \A i \in DOMAIN handed[c] :
                handed[c][i].response # <<>> =>
                    handed[c][i].response[6] = call[c].under.val.toolCalls

\* C24: a wrapped call settles only after its underlying call has settled,
\* its record has been handed to the transport and that send has settled;
\* while the send is in flight the wrapper waits for it.
SendSettlesBeforeCallSettles ==
    \A c \in DOMAIN call :
        Wrapped(c) =>
            /\ Len(handed[c]) > 0 => call[c].under.state # "pending"
            /\ snd[c].pc \notin {"idle", "done"} => call[c].pc = "awaitSend"
            /\ call[c].pc = "done" =>
                   /\ call[c].under.state # "pending"
                   /\ Len(handed[c]) > 0
                   /\ snd[c].pc = "done"

\* C25: a wrapped invocation calls the real implementation exactly once, with
\* the caller's argument list and the caller's this-binding, also when the
\* call fails.
DelegatesExactlyOnce ==
    \A c \in DOMAIN call :
        Wrapped(c) /\ call[c].pc # "idle" =>
            /\ call[c].invocations = 1
            /\ call[c].passed.args = ArgList(call[c].args)
            /\ call[c].passed.this = call[c].self

====
